---- MODULE Spec2Model ----
(***************************************************************************)
(* Book Writer Agent: the generation client (llm_client.py, main.py), the  *)
(* background task runner (LLMWorker) and the feature tabs, as one state   *)
(* machine.  A text is a sequence of characters; a character is a TLA+     *)
(* string, and a run of non-whitespace characters may be written as one    *)
(* string ("REPORT").                                                      *)
(***************************************************************************)
EXTENDS Naturals, Sequences, FiniteSets

VARIABLES
    entry,          \* which script built the window: "main_window.py" or "main.py"
    api_key_file,   \* gemini_api_key.txt: its content, unreadable, or absent
    genai,          \* whether google.generativeai could be imported
    is_available,   \* LLMClient.is_available
    files,          \* the three artifact files: content, or Absent
    conversation,   \* IdeaWorkshopTab.conversation: sequence of <<speaker, message>>
    disabled,       \* per push button: setDisabled state
    submitted,      \* how many workers the tabs have handed to the thread pool
    tasks,          \* the workers not yet done with: id -> worker
    eventQueue,     \* signals emitted by workers, queued for the interface thread
    lastEvent,      \* the early return or the dialog of the step just taken, if any
    call,           \* harness: the arguments of the last direct call
    ret             \* harness: the outcome of the last direct call

vars == <<entry, api_key_file, genai, is_available, files, conversation, disabled, submitted, tasks,
          eventQueue, lastEvent, call, ret>>

----------------------------------------------------------------------------
(* Bounds *)

\* the user works the tabs until this many workers have been submitted
MaxTasks == 2

----------------------------------------------------------------------------
(* Texts *)

Whitespace == {" ", "\n"}

\* str.lstrip()
RECURSIVE lstrip(_)
lstrip(s) == IF s = <<>> THEN s
             ELSE IF Head(s) \in Whitespace THEN lstrip(Tail(s)) ELSE s

\* str.rstrip()
RECURSIVE rstrip(_)
rstrip(s) == IF s = <<>> THEN s
             ELSE IF s[Len(s)] \in Whitespace THEN rstrip(SubSeq(s, 1, Len(s) - 1)) ELSE s

\* str.strip()
strip(s) == rstrip(lstrip(s))

\* c is t without its leading and trailing whitespace
IsTrimOf(c, t) ==
    \E a, b \in 0..Len(t) :
        /\ a + b <= Len(t)
        /\ c = SubSeq(t, a + 1, Len(t) - b)
        /\ \A k \in 1..a : t[k] \in Whitespace
        /\ \A k \in (Len(t) - b + 1)..Len(t) : t[k] \in Whitespace
        /\ (c # <<>> => c[1] \notin Whitespace /\ c[Len(c)] \notin Whitespace)

\* Optional[str]: None, or a string
None == [some |-> FALSE, val |-> <<>>]
Some(t) == [some |-> TRUE, val |-> t]

\* Python truthiness of an Optional[str]: None and "" are falsy
Truthy(o) == o.some /\ o.val # <<>>

\* what the user can have typed into an input widget
UserTexts == { <<>>, <<" ">>, <<" ", "a", "\n">> }

\* what the user can have typed into the optional author field
AuthorTexts == { <<>>, <<"Poe">> }

\* the texts the backend can answer with
BackendTexts == { <<>>, <<"\n", "REPORT", " ", "BODY", " ">> }

\* response of one backend invocation: a text, no text (response.text is None),
\* or an exception with a message
BackendOutcomes ==
    [kind : {"text"}, text : BackendTexts, msg : {""}]
    \cup { [kind |-> "none", text |-> <<>>, msg |-> ""] }
    \cup { [kind |-> "raise", text |-> <<>>, msg |-> "backend error"] }

\* placeholder for a backend invocation that is never made
NoCall == [kind |-> "nocall", text |-> <<>>, msg |-> ""]

----------------------------------------------------------------------------
(* Generation client: llm_client.py, and its older copy in main.py *)

\* outcome of a client call or of a task: a returned LLMResult or a raised
\* exception, with the backend invocations it made, in order
Return(value, calls) == [kind |-> "return", value |-> value, msg |-> "", calls |-> calls]
Raise(msg, calls) ==
    [kind |-> "raise", value |-> [text |-> <<>>, is_mock |-> FALSE], msg |-> msg,
     calls |-> calls]

\* LLMClient._mock_result
LLMClient_mock_result ==
    [text |-> << "[Mock response]", "\n", "\n",
                 "The Gemini API key is missing or the SDK is unavailable. ",
                 "Populate gemini_api_key.txt to enable live generation." >>,
     is_mock |-> TRUE]

\* the mock result built inline by main.py's LLMClient.generate
main_mock_result ==
    [text |-> << "[Mock response]", "\n", "\n",
                 "The Gemini API key is missing or the SDK is unavailable. ",
                 "Set GEMINI_API_KEY to enable live generation." >>,
     is_mock |-> TRUE]

\* f"{system}\n\n{prompt}" if system else prompt
full_prompt(prompt, system) ==
    IF Truthy(system) THEN system.val \o <<"\n", "\n">> \o prompt ELSE prompt

\* LLMResult(text=response.text or "", is_mock=False)
wrap_response(response) ==
    [text |-> IF response.kind = "text" THEN response.text ELSE <<>>, is_mock |-> FALSE]

\* a mutation of generate: the system instruction is dropped from the prompt
LLMClient_generate_no_system(avail, prompt, system, plain) ==
    IF ~avail THEN Return(LLMClient_mock_result, <<>>)
    ELSE LET sent == << [mode |-> "plain", prompt |-> prompt] >>
         IN  IF plain.kind = "raise" THEN Raise(plain.msg, sent)
             ELSE Return(wrap_response(plain), sent)

\* a mutation of generate: the unavailable client still invokes the backend
LLMClient_generate_mock_calls(avail, prompt, system, plain) ==
    LET sent == << [mode |-> "plain", prompt |-> full_prompt(prompt, system)] >>
    IN  IF ~avail THEN Return(LLMClient_mock_result, sent)
        ELSE IF plain.kind = "raise" THEN Raise(plain.msg, sent)
        ELSE Return(wrap_response(plain), sent)

\* LLMClient.generate; plain is what the backend does with the one invocation
LLMClient_generate(avail, prompt, system, plain) ==
    IF ~avail THEN Return(LLMClient_mock_result, <<>>)
    ELSE LET sent == << [mode |-> "plain", prompt |-> full_prompt(prompt, system)] >>
         IN  IF plain.kind = "raise" THEN Raise(plain.msg, sent)
             ELSE Return(wrap_response(plain), sent)

\* main.py's LLMClient.generate
main_LLMClient_generate(avail, prompt, system, plain) ==
    IF ~avail THEN Return(main_mock_result, <<>>)
    ELSE LET sent == << [mode |-> "plain", prompt |-> full_prompt(prompt, system)] >>
         IN  IF plain.kind = "raise" THEN Raise(plain.msg, sent)
             ELSE Return(wrap_response(plain), sent)

\* what the search-augmented attempt can do: the backend's outcomes, or the
\* construction of the search model itself raising
SearchOutcomes ==
    BackendOutcomes \cup { [kind |-> "construct_raise", text |-> <<>>, msg |-> "no tools"] }

\* a mutation of generate_with_search: the fallback forgets the system instruction
LLMClient_generate_with_search_fallback_no_system(avail, prompt, system, search, plain) ==
    IF ~avail THEN Return(LLMClient_mock_result, <<>>)
    ELSE LET sent == << [mode |-> "search", prompt |-> full_prompt(prompt, system)] >>
         IN  IF search.kind = "construct_raise"
             THEN LLMClient_generate(avail, prompt, None, plain)
             ELSE IF search.kind = "raise"
             THEN LET g == LLMClient_generate(avail, prompt, None, plain)
                  IN  [g EXCEPT !.calls = sent \o g.calls]
             ELSE Return(wrap_response(search), sent)

\* a mutation of generate_with_search: a failed search attempt is made again
\* before falling back
LLMClient_generate_with_search_retries(avail, prompt, system, search, plain) ==
    IF ~avail THEN Return(LLMClient_mock_result, <<>>)
    ELSE LET sent == << [mode |-> "search", prompt |-> full_prompt(prompt, system)] >>
         IN  IF search.kind = "construct_raise"
             THEN LLMClient_generate(avail, prompt, system, plain)
             ELSE IF search.kind = "raise"
             THEN LET g == LLMClient_generate(avail, prompt, system, plain)
                  IN  [g EXCEPT !.calls = sent \o sent \o g.calls]
             ELSE Return(wrap_response(search), sent)

\* LLMClient.generate_with_search; search is what the search-augmented attempt
\* does, plain what the backend does with the fallback invocation
LLMClient_generate_with_search(avail, prompt, system, search, plain) ==
    IF ~avail THEN Return(LLMClient_mock_result, <<>>)
    ELSE LET sent == << [mode |-> "search", prompt |-> full_prompt(prompt, system)] >>
         IN  IF search.kind = "construct_raise"
             THEN LLMClient_generate(avail, prompt, system, plain)
             ELSE IF search.kind = "raise"
             THEN LET g == LLMClient_generate(avail, prompt, system, plain)
                  IN  [g EXCEPT !.calls = sent \o g.calls]
             ELSE Return(wrap_response(search), sent)

\* the generate of the client the running script constructed
ClientGenerate(e, avail, prompt, system, plain) ==
    IF e = "main.py" THEN main_LLMClient_generate(avail, prompt, system, plain)
    ELSE LLMClient_generate(avail, prompt, system, plain)

\* the plain invocations among a call's backend invocations
PlainCalls(calls) == SelectSeq(calls, LAMBDA c : c.mode = "plain")

----------------------------------------------------------------------------
(* Credential file and client construction *)

\* the longest credential file content considered
MaxKeyLen == 3

\* the characters of a credential file: whitespace, and runs of other
\* characters, each written as one string
KeyChars == {" ", "\n", "MOCK", "mock", "Mock", "your_key_here", "MOCK_API_KEY", "k"}

KeyContents == UNION { [1..n -> KeyChars] : n \in 0..MaxKeyLen }

\* gemini_api_key.txt: missing, present with a text, or present but not
\* readable as text (a directory, undecodable bytes, no permission)
KeyAbsent == [exists |-> FALSE, readable |-> FALSE, content |-> <<>>]
KeyUnreadable == [exists |-> TRUE, readable |-> FALSE, content |-> <<>>]
KeyText(t) == [exists |-> TRUE, readable |-> TRUE, content |-> t]

KeyFiles == {KeyAbsent, KeyUnreadable} \cup { KeyText(t) : t \in KeyContents }

\* str.upper(), on one run of characters
upper_char(c) ==
    CASE c \in {"mock", "Mock"} -> "MOCK"
      [] c = "your_key_here" -> "YOUR_KEY_HERE"
      [] c = "k" -> "K"
      [] OTHER -> c

\* str.upper()
upper(s) == [i \in 1..Len(s) |-> upper_char(s[i])]

\* {"YOUR_KEY_HERE", "MOCK", "MOCK_API_KEY"}
PLACEHOLDERS == { <<"YOUR_KEY_HERE">>, <<"MOCK">>, <<"MOCK_API_KEY">> }

\* outcome of reading the credential: an Optional[str] returned, or an
\* exception raised
KeyReturn(v) == [kind |-> "return", value |-> v, msg |-> ""]
KeyRaise(msg) == [kind |-> "raise", value |-> None, msg |-> msg]

\* a mutation of load_api_key: the placeholders are compared case-sensitively
load_api_key_case_sensitive(f) ==
    IF ~f.exists THEN KeyReturn(None)
    ELSE IF ~f.readable THEN KeyRaise("read_text failed")
    ELSE LET value == strip(f.content)
         IN  IF value = <<>> THEN KeyReturn(None)
             ELSE IF value \in PLACEHOLDERS THEN KeyReturn(None)
             ELSE KeyReturn(Some(value))

\* a mutation of load_api_key: the content is not stripped
load_api_key_unstripped(f) ==
    IF ~f.exists THEN KeyReturn(None)
    ELSE IF ~f.readable THEN KeyRaise("read_text failed")
    ELSE LET value == f.content
         IN  IF value = <<>> THEN KeyReturn(None)
             ELSE IF upper(value) \in PLACEHOLDERS THEN KeyReturn(None)
             ELSE KeyReturn(Some(value))

\* load_api_key; Path.read_text raises on a file it cannot read as text, and
\* nothing in load_api_key catches it
load_api_key(f) ==
    IF ~f.exists THEN KeyReturn(None)
    ELSE IF ~f.readable THEN KeyRaise("read_text failed")
    ELSE LET value == strip(f.content)
         IN  IF value = <<>> THEN KeyReturn(None)
             ELSE IF upper(value) \in PLACEHOLDERS THEN KeyReturn(None)
             ELSE KeyReturn(Some(value))

\* main.py's BookWriterWindow.__init__ reads the credential inline
main_read_api_key(f) ==
    IF ~f.exists THEN KeyReturn(None)
    ELSE IF ~f.readable THEN KeyRaise("read_text failed")
    ELSE LET api_key == strip(f.content)
         IN  IF api_key = <<>> THEN KeyReturn(None) ELSE KeyReturn(Some(api_key))

\* LLMClient.__init__: bool(api_key) and genai is not None
LLMClient_init(api_key, sdk) == Truthy(api_key) /\ sdk

\* the credential BookWriterWindow.__init__ of the running script obtains
BookWriterWindow_api_key(e, f) ==
    IF e = "main.py" THEN main_read_api_key(f) ELSE load_api_key(f)

\* is_available of the client BookWriterWindow.__init__ builds; no client is
\* built when reading the credential raised
BookWriterWindow_is_available(e, f, sdk) ==
    LET key == BookWriterWindow_api_key(e, f)
    IN  key.kind = "return" /\ LLMClient_init(key.value, sdk)

----------------------------------------------------------------------------
(* Artifacts, buttons, workers *)

Artifacts == {"idea_report", "style_profile", "fact_library"}

Absent == [exists |-> FALSE, content |-> <<>>]
File(t) == [exists |-> TRUE, content |-> t]

Buttons == {"send_button", "save_button", "generate_button", "check_button",
            "style_button", "consistency_button"}

\* the tabs the running script adds to its window
TabsOf(e) ==
    IF e = "main.py" THEN {"IdeaWorkshopTab", "StyleBuilderTab", "CheckersTab"}
    ELSE {"IdeaWorkshopTab", "StyleBuilderTab", "FactLibraryTab", "FactCheckerTab",
          "CheckersTab"}

NoOutcome == [kind |-> "pending", value |-> [text |-> <<>>, is_mock |-> FALSE],
              msg |-> "", calls |-> <<>>]

\* LLMWorker(task) as handed to the thread pool.  finished / failed count the
\* invocations of the connected success / failure handler, got_result and
\* got_message are what they were invoked with, files_at_submit records the
\* artifacts as they were when the tab submitted the worker, and
\* conv_at_submit, for a worker of the idea workshop, the conversation as it
\* was then.
NewWorker(tab, kind, text, author, fs) ==
    [tab |-> tab, kind |-> kind, text |-> text, author |-> author, ran |-> FALSE,
     outcome |-> NoOutcome, finished |-> 0, failed |-> 0,
     got_result |-> [text |-> <<>>, is_mock |-> FALSE], got_message |-> "",
     files_at_submit |-> fs, conv_at_submit |-> <<>>]

Signal(i, name, result, message) ==
    [task |-> i, signal |-> name, result |-> result, message |-> message]

\* a mutation of run: the return after failed.emit is missing
LLMWorker_run_falls_through(i, outcome) ==
    IF outcome.kind = "raise"
    THEN << Signal(i, "failed", outcome.value, outcome.msg),
            Signal(i, "finished", outcome.value, "") >>
    ELSE << Signal(i, "finished", outcome.value, "") >>

\* a mutation of run: finished is emitted inside the try and again after it
LLMWorker_run_emits_twice(i, outcome) ==
    IF outcome.kind = "raise"
    THEN << Signal(i, "failed", outcome.value, outcome.msg) >>
    ELSE << Signal(i, "finished", outcome.value, ""),
            Signal(i, "finished", outcome.value, "") >>

\* LLMWorker.run: the signals it emits, given what self.task() did
LLMWorker_run(i, outcome) ==
    IF outcome.kind = "raise"
    THEN << Signal(i, "failed", outcome.value, outcome.msg) >>
    ELSE << Signal(i, "finished", outcome.value, "") >>

NoWorker == NewWorker("", "", <<>>, <<>>, [a \in Artifacts |-> Absent])

\* what lastEvent records: a button handler that returned before submitting
\* (op, its stripped input, the dialog it showed, "" for none), or a slot that
\* ran (op, its dialog, and in done the worker it was invoked for);
\* NoEvent after any other step
Event(op, input, dialog, message, done) ==
    [op |-> op, input |-> input, dialog |-> dialog, message |-> message, done |-> done]

NoEvent == Event("", <<>>, "", "", NoWorker)

\* the workers whose success or failure handler has not fired yet
InFlight(tab) ==
    { i \in DOMAIN tasks : tasks[i].tab = tab /\ tasks[i].finished + tasks[i].failed = 0 }

----------------------------------------------------------------------------
(* Prompts built by the tabs' task closures *)

RECURSIVE JoinLines(_)
\* "\n".join(lines)
JoinLines(lines) ==
    IF lines = <<>> THEN <<>>
    ELSE IF Len(lines) = 1 THEN lines[1]
    ELSE lines[1] \o <<"\n">> \o JoinLines(Tail(lines))

\* "\n".join(f"{role}: {text}" for role, text in self.conversation)
History(conv) ==
    JoinLines([k \in 1..Len(conv) |-> <<conv[k][1], ":", " ">> \o conv[k][2]])

COACH_SYSTEM == <<"You are a creative writing idea workshop coach. ...">>
REPORT_SYSTEM == <<"You are a writing workshop assistant. ...">>
STYLE_SYSTEM == <<"You are a literary style analyst. ...">>
FACT_SYSTEM == <<"You are a fact checker. ...">>
STYLE_CHECK_SYSTEM == <<"You are a style checker. ...">>
CONSISTENCY_SYSTEM == <<"You are a consistency checker. ...">>

\* the closure task() of send_message
IdeaWorkshopTab_send_message_task(conv, e, avail, plain) ==
    ClientGenerate(e, avail,
        <<"Continue the workshop conversation. Respond as the coach.", "\n", "\n",
          "Conversation so far:", "\n">> \o History(conv),
        Some(COACH_SYSTEM), plain)

\* the closure task() of save_report
IdeaWorkshopTab_save_report_task(conv, e, avail, plain) ==
    ClientGenerate(e, avail, <<"Conversation transcript:", "\n">> \o History(conv),
        Some(REPORT_SYSTEM), plain)

\* the closure task() of generate_style
StyleBuilderTab_generate_style_task(author, description, e, avail, plain) ==
    ClientGenerate(e, avail,
        <<"Author inspiration:", " ">>
            \o (IF author # <<>> THEN author ELSE <<"Not specified">>)
            \o <<"\n", "Style notes:", " ">> \o description,
        Some(STYLE_SYSTEM), plain)

\* the closure task() of run_fact_check; Path.read_text raises when the file is gone
FactCheckerTab_run_fact_check_task(text, fs, avail, search, plain) ==
    IF ~fs["fact_library"].exists THEN Raise("FileNotFoundError", <<>>)
    ELSE LLMClient_generate_with_search(avail,
            <<"Fact library:", "\n">> \o fs["fact_library"].content
                \o <<"\n", "\n", "Text to verify:", "\n">> \o text,
            Some(FACT_SYSTEM), search, plain)

\* the closure task() of run_style_check
CheckersTab_run_style_check_task(text, fs, e, avail, plain) ==
    IF ~fs["style_profile"].exists THEN Raise("FileNotFoundError", <<>>)
    ELSE ClientGenerate(e, avail,
            <<"Style profile:", "\n">> \o fs["style_profile"].content
                \o <<"\n", "\n", "Text to review:", "\n">> \o text,
            Some(STYLE_CHECK_SYSTEM), plain)

\* the closure task() of run_consistency_check
CheckersTab_run_consistency_check_task(text, fs, e, avail, plain) ==
    IF ~fs["idea_report"].exists THEN Raise("FileNotFoundError", <<>>)
    ELSE ClientGenerate(e, avail,
            <<"Idea workshop report:", "\n">> \o fs["idea_report"].content
                \o <<"\n", "\n", "Text to review:", "\n">> \o text,
            Some(CONSISTENCY_SYSTEM), plain)

\* a mutation of the check closures: the artifact is read when the check is
\* submitted and captured, as the pasted text is
TaskOutcome_reads_at_submit(t, conv, fs, e, avail, search, plain) ==
    CASE t.kind = "send_message" -> IdeaWorkshopTab_send_message_task(conv, e, avail, plain)
      [] t.kind = "save_report" -> IdeaWorkshopTab_save_report_task(conv, e, avail, plain)
      [] t.kind = "generate_style" ->
            StyleBuilderTab_generate_style_task(t.author, t.text, e, avail, plain)
      [] t.kind = "run_fact_check" ->
            FactCheckerTab_run_fact_check_task(t.text, t.files_at_submit, avail, search, plain)
      [] t.kind = "run_style_check" ->
            CheckersTab_run_style_check_task(t.text, t.files_at_submit, e, avail, plain)
      [] t.kind = "run_consistency_check" ->
            CheckersTab_run_consistency_check_task(t.text, t.files_at_submit, e, avail, plain)

\* self.task() of worker t, run against the current conversation and files
TaskOutcome(t, conv, fs, e, avail, search, plain) ==
    CASE t.kind = "send_message" -> IdeaWorkshopTab_send_message_task(conv, e, avail, plain)
      [] t.kind = "save_report" -> IdeaWorkshopTab_save_report_task(conv, e, avail, plain)
      [] t.kind = "generate_style" ->
            StyleBuilderTab_generate_style_task(t.author, t.text, e, avail, plain)
      [] t.kind = "run_fact_check" ->
            FactCheckerTab_run_fact_check_task(t.text, fs, avail, search, plain)
      [] t.kind = "run_style_check" ->
            CheckersTab_run_style_check_task(t.text, fs, e, avail, plain)
      [] t.kind = "run_consistency_check" ->
            CheckersTab_run_consistency_check_task(t.text, fs, e, avail, plain)

----------------------------------------------------------------------------
(* Interface thread: button handlers *)

\* a mutation of _set_busy: the save button is left alone
IdeaWorkshopTab_set_busy_send_only(d, busy) == [d EXCEPT !["send_button"] = busy]

\* a mutation of _set_busy: the send button is left alone
IdeaWorkshopTab_set_busy_save_only(d, busy) == [d EXCEPT !["save_button"] = busy]

\* IdeaWorkshopTab._set_busy
IdeaWorkshopTab_set_busy(d, busy) ==
    [d EXCEPT !["send_button"] = busy, !["save_button"] = busy]

\* FactCheckerTab._set_busy
FactCheckerTab_set_busy(d, busy) == [d EXCEPT !["check_button"] = busy]

\* CheckersTab._set_busy
CheckersTab_set_busy(d, busy) ==
    [d EXCEPT !["style_button"] = busy, !["consistency_button"] = busy]

\* the user still acts on the tabs
UserActs == submitted < MaxTasks

\* the worker is created, its signals connected, and thread_pool.start(worker)
Submit(op, tab, text, author) ==
    /\ submitted' = submitted + 1
    /\ tasks' = [i \in DOMAIN tasks \cup {submitted + 1} |->
                    IF i = submitted + 1
                    THEN [NewWorker(tab, op, text, author, files) EXCEPT
                            !.conv_at_submit = IF tab = "IdeaWorkshopTab"
                                               THEN conversation' ELSE <<>>]
                    ELSE tasks[i]]
    /\ lastEvent' = NoEvent

\* a handler that returns before submitting, after showing dialog (or none: "")
Refuse(op, text, dialog) ==
    /\ lastEvent' = Event(op, text, dialog, "", NoWorker)
    /\ UNCHANGED <<conversation, disabled, submitted, tasks>>

\* IdeaWorkshopTab.send_message, on a click of the enabled send button
IdeaWorkshopTab_send_message ==
    /\ UserActs
    /\ ~disabled["send_button"]
    /\ \E raw \in UserTexts :
        LET content == strip(raw)
        IN  IF content = <<>>
            THEN Refuse("send_message", content, "")
            ELSE /\ conversation' = Append(conversation, <<"User", content>>)
                 /\ disabled' = IdeaWorkshopTab_set_busy(disabled, TRUE)
                 /\ Submit("send_message", "IdeaWorkshopTab", content, <<>>)
    /\ UNCHANGED <<entry, api_key_file, genai, is_available, files, eventQueue, call, ret>>

\* IdeaWorkshopTab.save_report, on a click of the enabled save button
IdeaWorkshopTab_save_report ==
    /\ UserActs
    /\ ~disabled["save_button"]
    /\ IF conversation = <<>>
       THEN Refuse("save_report", <<>>, "Nothing to Save")
       ELSE /\ UNCHANGED conversation
            /\ disabled' = IdeaWorkshopTab_set_busy(disabled, TRUE)
            /\ Submit("save_report", "IdeaWorkshopTab", <<>>, <<>>)
    /\ UNCHANGED <<entry, api_key_file, genai, is_available, files, eventQueue, call, ret>>

\* StyleBuilderTab.generate_style, on a click of the enabled generate button
StyleBuilderTab_generate_style ==
    /\ UserActs
    /\ ~disabled["generate_button"]
    /\ \E raw \in UserTexts, rawAuthor \in AuthorTexts :
        LET description == strip(raw)
            author == strip(rawAuthor)
        IN  IF description = <<>>
            THEN Refuse("generate_style", description, "Missing Description")
            ELSE /\ disabled' = [disabled EXCEPT !["generate_button"] = TRUE]
                 /\ Submit("generate_style", "StyleBuilderTab", description, author)
                 /\ UNCHANGED conversation
    /\ UNCHANGED <<entry, api_key_file, genai, is_available, files, eventQueue, call, ret>>

\* a mutation of save_library: only trailing whitespace is removed
FactLibraryTab_save_library_click_rstrip(raw) ==
    LET text == rstrip(raw)
    IN  IF text = <<>>
        THEN Refuse("save_library", text, "Nothing to Save") /\ UNCHANGED files
        ELSE /\ files' = [files EXCEPT !["fact_library"] = File(text)]
             /\ lastEvent' = NoEvent
             /\ UNCHANGED <<conversation, disabled, submitted, tasks>>

\* a mutation of save_library: saving an empty editor removes the file
FactLibraryTab_save_library_click_empty_deletes(raw) ==
    LET text == strip(raw)
    IN  IF text = <<>>
        THEN /\ Refuse("save_library", text, "Nothing to Save")
             /\ files' = [files EXCEPT !["fact_library"] = Absent]
        ELSE /\ files' = [files EXCEPT !["fact_library"] = File(text)]
             /\ lastEvent' = NoEvent
             /\ UNCHANGED <<conversation, disabled, submitted, tasks>>

\* the body of FactLibraryTab.save_library; raw is the editor's text
FactLibraryTab_save_library_click(raw) ==
    LET text == strip(raw)
    IN  IF text = <<>>
        THEN Refuse("save_library", text, "Nothing to Save") /\ UNCHANGED files
        ELSE /\ files' = [files EXCEPT !["fact_library"] = File(text)]
             /\ lastEvent' = NoEvent
             /\ UNCHANGED <<conversation, disabled, submitted, tasks>>

\* FactLibraryTab.save_library, on a click of the save button
FactLibraryTab_save_library ==
    /\ UserActs
    /\ "FactLibraryTab" \in TabsOf(entry)
    /\ \E raw \in UserTexts : FactLibraryTab_save_library_click(raw)
    /\ UNCHANGED <<entry, api_key_file, genai, is_available, eventQueue, call, ret>>

\* FactLibraryTab.load_library: the editor's text once it has run
FactLibraryTab_load_library(editor, fs) ==
    IF fs["fact_library"].exists THEN fs["fact_library"].content ELSE editor

\* a mutation of run_fact_check's guards: the library's existence is not checked
FactCheckerTab_run_fact_check_dialog_no_exists(text, fs) ==
    IF text = <<>> THEN "Missing Text" ELSE ""

\* the guards of run_fact_check: the dialog shown, "" when both pass
FactCheckerTab_run_fact_check_dialog(text, fs) ==
    IF text = <<>> THEN "Missing Text"
    ELSE IF ~fs["fact_library"].exists THEN "Missing Fact Library"
    ELSE ""

\* FactCheckerTab.run_fact_check, on a click of the enabled check button
FactCheckerTab_run_fact_check ==
    /\ "FactCheckerTab" \in TabsOf(entry)
    /\ UserActs
    /\ ~disabled["check_button"]
    /\ \E raw \in UserTexts :
        LET text == strip(raw)
            dialog == FactCheckerTab_run_fact_check_dialog(text, files)
        IN  IF dialog # ""
            THEN Refuse("run_fact_check", text, dialog)
            ELSE /\ disabled' = FactCheckerTab_set_busy(disabled, TRUE)
                 /\ Submit("run_fact_check", "FactCheckerTab", text, <<>>)
                 /\ UNCHANGED conversation
    /\ UNCHANGED <<entry, api_key_file, genai, is_available, files, eventQueue, call, ret>>

\* a mutation of run_style_check's guards: the profile's existence is not checked
CheckersTab_run_style_check_dialog_no_exists(text, fs) ==
    IF text = <<>> THEN "Missing Text" ELSE ""

\* the guards of run_style_check: the dialog shown, "" when both pass
CheckersTab_run_style_check_dialog(text, fs) ==
    IF text = <<>> THEN "Missing Text"
    ELSE IF ~fs["style_profile"].exists THEN "Missing Style Profile"
    ELSE ""

\* CheckersTab.run_style_check, on a click of the enabled style button
CheckersTab_run_style_check ==
    /\ UserActs
    /\ ~disabled["style_button"]
    /\ \E raw \in UserTexts :
        LET text == strip(raw)
            dialog == CheckersTab_run_style_check_dialog(text, files)
        IN  IF dialog # ""
            THEN Refuse("run_style_check", text, dialog)
            ELSE /\ disabled' = CheckersTab_set_busy(disabled, TRUE)
                 /\ Submit("run_style_check", "CheckersTab", text, <<>>)
                 /\ UNCHANGED conversation
    /\ UNCHANGED <<entry, api_key_file, genai, is_available, files, eventQueue, call, ret>>

\* the guards of run_consistency_check: the dialog shown, "" when both pass
CheckersTab_run_consistency_check_dialog(text, fs) ==
    IF text = <<>> THEN "Missing Text"
    ELSE IF ~fs["idea_report"].exists THEN "Missing Workshop Report"
    ELSE ""

\* CheckersTab.run_consistency_check, on a click of the enabled consistency button
CheckersTab_run_consistency_check ==
    /\ UserActs
    /\ ~disabled["consistency_button"]
    /\ \E raw \in UserTexts :
        LET text == strip(raw)
            dialog == CheckersTab_run_consistency_check_dialog(text, files)
        IN  IF dialog # ""
            THEN Refuse("run_consistency_check", text, dialog)
            ELSE /\ disabled' = CheckersTab_set_busy(disabled, TRUE)
                 /\ Submit("run_consistency_check", "CheckersTab", text, <<>>)
                 /\ UNCHANGED conversation
    /\ UNCHANGED <<entry, api_key_file, genai, is_available, files, eventQueue, call, ret>>

----------------------------------------------------------------------------
(* Worker thread *)

\* only the fact check's task makes a search-augmented attempt
SearchFor(t) == IF t.kind = "run_fact_check" THEN SearchOutcomes ELSE {NoCall}

\* a pool thread runs LLMWorker.run of worker i: the task reads the conversation
\* or its artifact now, calls the client, and run emits one signal; the pool
\* then deletes the worker, and with it the closure and the text it captured
LLMWorker_run_step ==
    \E i \in DOMAIN tasks :
        /\ ~tasks[i].ran
        /\ \E search \in SearchFor(tasks[i]), plain \in BackendOutcomes :
            LET outcome == TaskOutcome(tasks[i], conversation, files, entry,
                                       is_available, search, plain)
            IN  /\ tasks' = [tasks EXCEPT ![i].ran = TRUE, ![i].outcome = outcome,
                                          ![i].text = <<>>, ![i].author = <<>>]
                /\ eventQueue' = eventQueue \o LLMWorker_run(i, outcome)
                /\ lastEvent' = NoEvent
        /\ UNCHANGED <<entry, api_key_file, genai, is_available, files, conversation, disabled, submitted,
                       call, ret>>

----------------------------------------------------------------------------
(* Interface thread: the slots connected to the workers' signals *)

\* the queued signal the event loop delivers next goes to the slot connected
\* for workers of these kinds
NextSignal(name, kinds) ==
    /\ eventQueue # <<>>
    /\ Head(eventQueue).signal = name
    /\ tasks[Head(eventQueue).task].kind \in kinds

\* worker i once its success slot has been invoked with result
GotFinished(i, result) ==
    [tasks[i] EXCEPT !.finished = @ + 1, !.got_result = result]

\* worker i once its failure slot has been invoked with message
GotFailed(i, message) ==
    [tasks[i] EXCEPT !.failed = @ + 1, !.got_message = message]

\* the signals of worker i still queued behind the one being delivered
StillQueued(i) ==
    { k \in 2..Len(eventQueue) : eventQueue[k].task = i }

\* the slot for the head signal has run for worker i, now w: the signal leaves
\* the queue, and a worker with no signal left in the queue is dropped
Delivered(i, w) ==
    /\ eventQueue' = Tail(eventQueue)
    /\ tasks' = IF StillQueued(i) = {} THEN [k \in DOMAIN tasks \ {i} |-> tasks[k]]
                 ELSE [tasks EXCEPT ![i] = w]
    /\ UNCHANGED submitted

\* IdeaWorkshopTab._handle_response
IdeaWorkshopTab_handle_response ==
    /\ NextSignal("finished", {"send_message"})
    /\ LET ev == Head(eventQueue)
           response_text == strip(ev.result.text)
       IN  /\ conversation' = Append(conversation, <<"Coach", response_text>>)
           /\ disabled' = IdeaWorkshopTab_set_busy(disabled, FALSE)
           /\ Delivered(ev.task, GotFinished(ev.task, ev.result))
           /\ lastEvent' = Event("_handle_response", <<>>, "", "", GotFinished(ev.task, ev.result))
    /\ UNCHANGED <<entry, api_key_file, genai, is_available, files, call, ret>>

\* a mutation of _handle_error: the user message that got no reply is taken
\* back out of the conversation
IdeaWorkshopTab_handle_error_drops_user ==
    /\ NextSignal("failed", {"send_message", "save_report"})
    /\ LET ev == Head(eventQueue)
       IN  /\ conversation' = IF tasks[ev.task].kind = "send_message"
                              THEN SubSeq(conversation, 1, Len(conversation) - 1)
                              ELSE conversation
           /\ disabled' = IdeaWorkshopTab_set_busy(disabled, FALSE)
           /\ Delivered(ev.task, GotFailed(ev.task, ev.message))
           /\ lastEvent' = Event("_handle_error", <<>>, "Idea Workshop Error", ev.message,
                                 GotFailed(ev.task, ev.message))
    /\ UNCHANGED <<entry, api_key_file, genai, is_available, files, call, ret>>

\* IdeaWorkshopTab._handle_error
IdeaWorkshopTab_handle_error ==
    /\ NextSignal("failed", {"send_message", "save_report"})
    /\ LET ev == Head(eventQueue)
       IN  /\ disabled' = IdeaWorkshopTab_set_busy(disabled, FALSE)
           /\ Delivered(ev.task, GotFailed(ev.task, ev.message))
           /\ lastEvent' = Event("_handle_error", <<>>, "Idea Workshop Error", ev.message,
                                 GotFailed(ev.task, ev.message))
    /\ UNCHANGED <<entry, api_key_file, genai, is_available, files, conversation, call, ret>>

\* a mutation of _save_report_result: the text is written as received
IdeaWorkshopTab_save_report_result_unstripped ==
    /\ NextSignal("finished", {"save_report"})
    /\ LET ev == Head(eventQueue)
       IN  /\ files' = [files EXCEPT !["idea_report"] = File(ev.result.text)]
           /\ disabled' = IdeaWorkshopTab_set_busy(disabled, FALSE)
           /\ Delivered(ev.task, GotFinished(ev.task, ev.result))
           /\ lastEvent' = Event("_save_report_result", <<>>, "", "", GotFinished(ev.task, ev.result))
    /\ UNCHANGED <<entry, api_key_file, genai, is_available, conversation, call, ret>>

\* IdeaWorkshopTab._save_report_result
IdeaWorkshopTab_save_report_result ==
    /\ NextSignal("finished", {"save_report"})
    /\ LET ev == Head(eventQueue)
       IN  /\ files' = [files EXCEPT !["idea_report"] = File(strip(ev.result.text))]
           /\ disabled' = IdeaWorkshopTab_set_busy(disabled, FALSE)
           /\ Delivered(ev.task, GotFinished(ev.task, ev.result))
           /\ lastEvent' = Event("_save_report_result", <<>>, "", "", GotFinished(ev.task, ev.result))
    /\ UNCHANGED <<entry, api_key_file, genai, is_available, conversation, call, ret>>

\* StyleBuilderTab._handle_style_result
StyleBuilderTab_handle_style_result ==
    /\ NextSignal("finished", {"generate_style"})
    /\ LET ev == Head(eventQueue)
       IN  /\ files' = [files EXCEPT !["style_profile"] = File(strip(ev.result.text))]
           /\ disabled' = [disabled EXCEPT !["generate_button"] = FALSE]
           /\ Delivered(ev.task, GotFinished(ev.task, ev.result))
           /\ lastEvent' = Event("_handle_style_result", <<>>, "", "", GotFinished(ev.task, ev.result))
    /\ UNCHANGED <<entry, api_key_file, genai, is_available, conversation, call, ret>>

\* a mutation of StyleBuilderTab._handle_error: the button is not re-enabled
StyleBuilderTab_handle_error_stays_disabled ==
    /\ NextSignal("failed", {"generate_style"})
    /\ LET ev == Head(eventQueue)
       IN  /\ Delivered(ev.task, GotFailed(ev.task, ev.message))
           /\ lastEvent' = Event("_handle_error", <<>>, "Style Profile Error", ev.message,
                                 GotFailed(ev.task, ev.message))
    /\ UNCHANGED <<entry, api_key_file, genai, is_available, files, conversation, disabled, call, ret>>

\* a mutation of StyleBuilderTab._handle_error: the message is saved as the profile
StyleBuilderTab_handle_error_persists ==
    /\ NextSignal("failed", {"generate_style"})
    /\ LET ev == Head(eventQueue)
       IN  /\ files' = [files EXCEPT !["style_profile"] = File(<<ev.message>>)]
           /\ disabled' = [disabled EXCEPT !["generate_button"] = FALSE]
           /\ Delivered(ev.task, GotFailed(ev.task, ev.message))
           /\ lastEvent' = Event("_handle_error", <<>>, "Style Profile Error", ev.message,
                                 GotFailed(ev.task, ev.message))
    /\ UNCHANGED <<entry, api_key_file, genai, is_available, conversation, call, ret>>

\* StyleBuilderTab._handle_error
StyleBuilderTab_handle_error ==
    /\ NextSignal("failed", {"generate_style"})
    /\ LET ev == Head(eventQueue)
       IN  /\ disabled' = [disabled EXCEPT !["generate_button"] = FALSE]
           /\ Delivered(ev.task, GotFailed(ev.task, ev.message))
           /\ lastEvent' = Event("_handle_error", <<>>, "Style Profile Error", ev.message,
                                 GotFailed(ev.task, ev.message))
    /\ UNCHANGED <<entry, api_key_file, genai, is_available, files, conversation, call, ret>>

\* FactCheckerTab._handle_results
FactCheckerTab_handle_results ==
    /\ NextSignal("finished", {"run_fact_check"})
    /\ LET ev == Head(eventQueue)
       IN  /\ disabled' = FactCheckerTab_set_busy(disabled, FALSE)
           /\ Delivered(ev.task, GotFinished(ev.task, ev.result))
           /\ lastEvent' = Event("_handle_results", <<>>, "", "", GotFinished(ev.task, ev.result))
    /\ UNCHANGED <<entry, api_key_file, genai, is_available, files, conversation, call, ret>>

\* FactCheckerTab._handle_error
FactCheckerTab_handle_error ==
    /\ NextSignal("failed", {"run_fact_check"})
    /\ LET ev == Head(eventQueue)
       IN  /\ disabled' = FactCheckerTab_set_busy(disabled, FALSE)
           /\ Delivered(ev.task, GotFailed(ev.task, ev.message))
           /\ lastEvent' = Event("_handle_error", <<>>, "Fact Checker Error", ev.message,
                                 GotFailed(ev.task, ev.message))
    /\ UNCHANGED <<entry, api_key_file, genai, is_available, files, conversation, call, ret>>

\* CheckersTab._handle_results
CheckersTab_handle_results ==
    /\ NextSignal("finished", {"run_style_check", "run_consistency_check"})
    /\ LET ev == Head(eventQueue)
       IN  /\ disabled' = CheckersTab_set_busy(disabled, FALSE)
           /\ Delivered(ev.task, GotFinished(ev.task, ev.result))
           /\ lastEvent' = Event("_handle_results", <<>>, "", "", GotFinished(ev.task, ev.result))
    /\ UNCHANGED <<entry, api_key_file, genai, is_available, files, conversation, call, ret>>

\* CheckersTab._handle_error
CheckersTab_handle_error ==
    /\ NextSignal("failed", {"run_style_check", "run_consistency_check"})
    /\ LET ev == Head(eventQueue)
       IN  /\ disabled' = CheckersTab_set_busy(disabled, FALSE)
           /\ Delivered(ev.task, GotFailed(ev.task, ev.message))
           /\ lastEvent' = Event("_handle_error", <<>>, "Checker Error", ev.message,
                                 GotFailed(ev.task, ev.message))
    /\ UNCHANGED <<entry, api_key_file, genai, is_available, files, conversation, call, ret>>

----------------------------------------------------------------------------
(* The application *)

NoCallYet == [op |-> "none", prompt |-> <<>>, system |-> None, search |-> NoCall,
              plain |-> NoCall]

\* the installations a session starts in: a placeholder in the credential
\* file, or a key, with the SDK importable or not
Installations ==
    { <<KeyText(<<"MOCK", "\n">>), TRUE>>,
      <<KeyText(<<"k", "\n">>), TRUE>>,
      <<KeyText(<<"k", "\n">>), FALSE>> }

\* BookWriterWindow.__init__: the client is built, the tabs are idle, the
\* artifacts are whatever earlier sessions left in the data directory
Init ==
    /\ entry \in {"main_window.py", "main.py"}
    /\ \E inst \in Installations : api_key_file = inst[1] /\ genai = inst[2]
    /\ is_available = BookWriterWindow_is_available(entry, api_key_file, genai)
    /\ files \in { [a \in Artifacts |-> Absent], [a \in Artifacts |-> File(<<"old">>)] }
    /\ conversation = <<>>
    /\ disabled = [b \in Buttons |-> FALSE]
    /\ submitted = 0
    /\ tasks = <<>>
    /\ eventQueue = <<>>
    /\ lastEvent = NoEvent
    /\ call = NoCallYet
    /\ ret = NoOutcome

Next ==
    \/ IdeaWorkshopTab_send_message
    \/ IdeaWorkshopTab_save_report
    \/ StyleBuilderTab_generate_style
    \/ FactLibraryTab_save_library
    \/ FactCheckerTab_run_fact_check
    \/ CheckersTab_run_style_check
    \/ CheckersTab_run_consistency_check
    \/ LLMWorker_run_step
    \/ IdeaWorkshopTab_handle_response
    \/ IdeaWorkshopTab_handle_error
    \/ IdeaWorkshopTab_save_report_result
    \/ StyleBuilderTab_handle_style_result
    \/ StyleBuilderTab_handle_error
    \/ FactCheckerTab_handle_results
    \/ FactCheckerTab_handle_error
    \/ CheckersTab_handle_results
    \/ CheckersTab_handle_error

Spec == Init /\ [][Next]_vars

----------------------------------------------------------------------------
(* The client called directly: every prompt, system instruction and backend
   behaviour, on the client the script constructed *)

ClientPrompts == { <<>>, <<"p">>, <<" ", "p", "\n">> }

ClientSystems == { None, Some(<<>>), Some(<<"s">>) }

\* llm.generate(prompt, system)
Client_generate ==
    /\ \E prompt \in ClientPrompts, system \in ClientSystems, plain \in BackendOutcomes :
        /\ call' = [op |-> "generate", prompt |-> prompt, system |-> system,
                    search |-> NoCall, plain |-> plain]
        /\ ret' = ClientGenerate(entry, is_available, prompt, system, plain)
    /\ UNCHANGED <<entry, api_key_file, genai, is_available, files, conversation, disabled, submitted, tasks,
                   eventQueue, lastEvent>>

\* llm.generate_with_search(prompt, system); main.py's client has no such method
Client_generate_with_search ==
    /\ entry = "main_window.py"
    /\ \E prompt \in ClientPrompts, system \in ClientSystems,
          search \in SearchOutcomes, plain \in BackendOutcomes :
        /\ call' = [op |-> "generate_with_search", prompt |-> prompt, system |-> system,
                    search |-> search, plain |-> plain]
        /\ ret' = LLMClient_generate_with_search(is_available, prompt, system, search, plain)
    /\ UNCHANGED <<entry, api_key_file, genai, is_available, files, conversation, disabled, submitted, tasks,
                   eventQueue, lastEvent>>

ClientNext == Client_generate \/ Client_generate_with_search

ClientSpec == Init /\ [][ClientNext]_vars

----------------------------------------------------------------------------
(* Startup: the credential file as the script finds it, before the window is
   built; load_api_key called on it, and the window's constructor run on it *)

KeyInit ==
    /\ entry \in {"main_window.py", "main.py"}
    /\ api_key_file \in KeyFiles
    /\ genai \in BOOLEAN
    /\ is_available = FALSE
    /\ files = [a \in Artifacts |-> Absent]
    /\ conversation = <<>>
    /\ disabled = [b \in Buttons |-> FALSE]
    /\ submitted = 0
    /\ tasks = <<>>
    /\ eventQueue = <<>>
    /\ lastEvent = NoEvent
    /\ call = NoCallYet
    /\ ret = NoOutcome

\* load_api_key()
Call_load_api_key ==
    /\ call' = [NoCallYet EXCEPT !.op = "load_api_key"]
    /\ ret' = load_api_key(api_key_file)
    /\ UNCHANGED <<entry, api_key_file, genai, is_available, files, conversation, disabled,
                   submitted, tasks, eventQueue, lastEvent>>

\* BookWriterWindow(): the credential is read and the client built from it;
\* an exception raised while reading leaves the constructor, and no client
Call_BookWriterWindow_init ==
    /\ call' = [NoCallYet EXCEPT !.op = "BookWriterWindow.__init__"]
    /\ ret' = BookWriterWindow_api_key(entry, api_key_file)
    /\ is_available' = BookWriterWindow_is_available(entry, api_key_file, genai)
    /\ UNCHANGED <<entry, api_key_file, genai, files, conversation, disabled,
                   submitted, tasks, eventQueue, lastEvent>>

KeyNext == Call_load_api_key \/ Call_BookWriterWindow_init

KeySpec == KeyInit /\ [][KeyNext]_vars

----------------------------------------------------------------------------
(* Claims about the credential loader, under KeySpec *)

\* every character of t is whitespace (the empty text included)
IsBlank(t) == \A k \in 1..Len(t) : t[k] \in Whitespace

\* the placeholder tokens in the letter cases the credential file can hold
PlaceholderSpellings == {"MOCK", "mock", "Mock", "your_key_here", "MOCK_API_KEY"}

\* t is one placeholder token, in any letter case, with whitespace around it
IsPlaceholderText(t) ==
    \E k \in 1..Len(t) :
        /\ t[k] \in PlaceholderSpellings
        /\ \A j \in 1..Len(t) : j # k => t[j] \in Whitespace

\* C11: load_api_key returns None when the credential file does not exist,
\* when its content is empty or only whitespace, and when its content, trimmed,
\* is YOUR_KEY_HERE, MOCK or MOCK_API_KEY in any letter case.
C11_PlaceholderIsAbsent ==
    ( /\ call.op = "load_api_key"
      /\ \/ ~api_key_file.exists
         \/ /\ api_key_file.readable
            /\ IsBlank(api_key_file.content) \/ IsPlaceholderText(api_key_file.content) )
    => ret = KeyReturn(None)

C11_Witness ==
    /\ call.op = "load_api_key"
    /\ api_key_file = KeyText(<<" ", "Mock", "\n">>)
    /\ ret = KeyReturn(None)

\* C12, as claimed: no exception leaves load_api_key; a credential file that
\* exists but cannot be read as text gives None.
C12_Original ==
    call.op = "load_api_key"
    => /\ ret.kind = "return"
       /\ (api_key_file.exists /\ ~api_key_file.readable) => ret = KeyReturn(None)

\* the first line of t: the characters before the first newline
RECURSIVE first_line(_)
first_line(t) ==
    IF t = <<>> \/ Head(t) = "\n" THEN <<>> ELSE <<Head(t)>> \o first_line(Tail(t))

\* C17, as claimed: load_api_key returns the first line of the credential
\* file, trimmed, or None when that line is empty or a placeholder.
C17_Original ==
    (call.op = "load_api_key" /\ api_key_file.readable)
    => LET line == strip(first_line(api_key_file.content))
       IN  ret = IF line = <<>> \/ IsPlaceholderText(line)
                 THEN KeyReturn(None) ELSE KeyReturn(Some(line))

\* C17, amended: load_api_key returns the whole content of the credential
\* file, trimmed at both ends, later lines included, or None when that is
\* empty or a placeholder.
C17_WholeContentTrimmed ==
    (call.op = "load_api_key" /\ api_key_file.readable)
    => \/ /\ IsBlank(api_key_file.content) \/ IsPlaceholderText(api_key_file.content)
          /\ ret = KeyReturn(None)
       \/ /\ ~IsBlank(api_key_file.content)
          /\ ~IsPlaceholderText(api_key_file.content)
          /\ ret.kind = "return"
          /\ ret.value.some
          /\ IsTrimOf(ret.value.val, api_key_file.content)

C17_Witness ==
    /\ call.op = "load_api_key"
    /\ api_key_file = KeyText(<<"k", "\n", "MOCK">>)
    /\ ret = KeyReturn(Some(<<"k", "\n", "MOCK">>))

----------------------------------------------------------------------------
(* The fact library tab on its own: the user saves what the editor holds, and
   the tab is built again, which loads the file into a fresh editor *)

\* the longest editor text considered
MaxEditorLen == 3

LibraryTexts == UNION { [1..n -> {" ", "\n", "a"}] : n \in 0..MaxEditorLen }

\* save_library with raw in the editor
Library_save ==
    /\ "FactLibraryTab" \in TabsOf(entry)
    /\ \E raw \in LibraryTexts :
        /\ FactLibraryTab_save_library_click(raw)
        /\ call' = [op |-> "save_library", editor |-> raw]
        /\ ret' = [kind |-> "return", editor |-> raw]
    /\ UNCHANGED <<entry, api_key_file, genai, is_available, eventQueue>>

\* FactLibraryTab.__init__ in a new window: load_library fills the new, empty
\* editor; call records the editor text of the save it follows, if any
Library_load ==
    /\ "FactLibraryTab" \in TabsOf(entry)
    /\ call' = [op |-> "load_library",
                editor |-> IF call.op = "save_library" THEN Some(call.editor) ELSE None]
    /\ ret' = [kind |-> "return", editor |-> FactLibraryTab_load_library(<<>>, files)]
    /\ lastEvent' = NoEvent
    /\ UNCHANGED <<entry, api_key_file, genai, is_available, files, conversation, disabled,
                   submitted, tasks, eventQueue>>

LibraryNext == Library_save \/ Library_load

LibrarySpec == Init /\ [][LibraryNext]_vars

----------------------------------------------------------------------------
(* Claims about the client, under ClientSpec *)

\* C8: generate_with_search on an available client whose search-augmented
\* attempt raises (in constructing the search model or in invoking it) has the
\* outcome of generate(prompt, system) on the same arguments: the same result
\* when the plain generation succeeds, the plain generation's failure when it
\* raises, and the same plain invocation of the backend.
C8_SearchFallbackIsGenerate ==
    ( /\ call.op = "generate_with_search"
      /\ is_available
      /\ call.search.kind \in {"raise", "construct_raise"} )
    => LET g == LLMClient_generate(is_available, call.prompt, call.system, call.plain)
       IN  /\ ret.kind = g.kind
           /\ ret.value = g.value
           /\ ret.msg = g.msg
           /\ PlainCalls(ret.calls) = g.calls
           /\ (call.plain.kind = "raise" <=> ret.kind = "raise")

C8_Witness ==
    /\ call.op = "generate_with_search"
    /\ is_available
    /\ call.search.kind = "raise"
    /\ call.plain.kind = "text"
    /\ Truthy(call.system)
    /\ ret.kind = "return"
    /\ ret.value.text = call.plain.text

\* C9: on an unavailable client generate and generate_with_search return the
\* client's fixed mock result, is_mock true, whatever the prompt and the system
\* instruction, and invoke the backend not at all.
C9_UnavailableIsMock ==
    (~is_available /\ call.op # "none")
    => /\ ret.kind = "return"
       /\ ret.value.is_mock
       /\ ret.value = (IF entry = "main.py" THEN main_mock_result ELSE LLMClient_mock_result)
       /\ ret.calls = <<>>

C9_Witness ==
    /\ ~is_available
    /\ call.op = "generate_with_search"
    /\ call.prompt # <<>>
    /\ Truthy(call.system)
    /\ ret.value.is_mock

\* C10: on an available client generate sends the backend, once, the system
\* instruction, a blank line and the prompt when a (non-empty) system
\* instruction is given and the prompt alone otherwise; it returns the backend's
\* text with is_mock false, the empty string when the backend gives no text.
C10_GenerateWrapsBackend ==
    (is_available /\ call.op = "generate")
    => /\ Len(ret.calls) = 1
       /\ ret.calls[1].mode = "plain"
       /\ ret.calls[1].prompt =
            (IF call.system.some /\ call.system.val # <<>>
             THEN call.system.val \o <<"\n", "\n">> \o call.prompt
             ELSE call.prompt)
       /\ (call.plain.kind = "text"
            => ret.kind = "return"
               /\ ret.value = [text |-> call.plain.text, is_mock |-> FALSE])
       /\ (call.plain.kind = "none"
            => ret.kind = "return" /\ ret.value = [text |-> <<>>, is_mock |-> FALSE])

C10_Witness ==
    /\ is_available
    /\ call.op = "generate"
    /\ call.system = Some(<<"s">>)
    /\ call.prompt = <<" ", "p", "\n">>
    /\ call.plain.kind = "none"
    /\ ret.value.text = <<>>
    /\ ret.calls[1].prompt = <<"s", "\n", "\n", " ", "p", "\n">>

----------------------------------------------------------------------------
(* Claims about the task runner and the tabs, under Spec *)

TaskTabs == {"IdeaWorkshopTab", "StyleBuilderTab", "FactCheckerTab", "CheckersTab"}

\* the buttons that trigger a tab's tasks
ButtonsOf(tab) ==
    CASE tab = "IdeaWorkshopTab" -> {"send_button", "save_button"}
      [] tab = "StyleBuilderTab" -> {"generate_button"}
      [] tab = "FactCheckerTab" -> {"check_button"}
      [] tab = "CheckersTab" -> {"style_button", "consistency_button"}
      [] OTHER -> {}

\* the tab whose button handler op is
TabOfOp(op) ==
    CASE op \in {"send_message", "save_report"} -> "IdeaWorkshopTab"
      [] op = "generate_style" -> "StyleBuilderTab"
      [] op = "run_fact_check" -> "FactCheckerTab"
      [] op \in {"run_style_check", "run_consistency_check"} -> "CheckersTab"
      [] OTHER -> "FactLibraryTab"

\* the button handlers
ClickOps == {"send_message", "save_report", "generate_style", "save_library",
             "run_fact_check", "run_style_check", "run_consistency_check"}

\* the queued signals of worker i named name
Pending(i, name) ==
    { k \in 1..Len(eventQueue) : eventQueue[k].task = i /\ eventQueue[k].signal = name }

\* C1: a worker whose task returned V has exactly one finished signal, carrying
\* V, between its run and its success slot, and no failed signal; the success
\* slot is invoked once, with V, and the failure slot never.
C1_ReturnDeliveredOnce ==
    /\ \A i \in DOMAIN tasks :
        tasks[i].outcome.kind = "return"
        => /\ tasks[i].failed = 0
           /\ Pending(i, "failed") = {}
           /\ tasks[i].finished + Cardinality(Pending(i, "finished")) = 1
           /\ \A k \in Pending(i, "finished") : eventQueue[k].result = tasks[i].outcome.value
    /\ lastEvent.done.outcome.kind = "return"
        => /\ lastEvent.done.finished = 1
           /\ lastEvent.done.failed = 0
           /\ lastEvent.done.got_result = lastEvent.done.outcome.value

C1_Witness ==
    /\ lastEvent.done.outcome.kind = "return"
    /\ lastEvent.done.finished = 1
    /\ lastEvent.done.got_result.text = <<"\n", "REPORT", " ", "BODY", " ">>
    /\ \A i \in DOMAIN tasks : tasks[i].tab # lastEvent.done.tab

\* C2: a worker whose task raised E has exactly one failed signal, carrying E's
\* message, between its run and its failure slot, and no finished signal; the
\* failure slot is invoked once, with the message, and the success slot never.
C2_RaiseDeliveredOnce ==
    /\ \A i \in DOMAIN tasks :
        tasks[i].outcome.kind = "raise"
        => /\ tasks[i].finished = 0
           /\ Pending(i, "finished") = {}
           /\ tasks[i].failed + Cardinality(Pending(i, "failed")) = 1
           /\ \A k \in Pending(i, "failed") : eventQueue[k].message = tasks[i].outcome.msg
    /\ lastEvent.done.outcome.kind = "raise"
        => /\ lastEvent.done.failed = 1
           /\ lastEvent.done.finished = 0
           /\ lastEvent.done.got_message = lastEvent.done.outcome.msg
           /\ lastEvent.message = lastEvent.done.outcome.msg

C2_Witness ==
    /\ lastEvent.done.outcome.kind = "raise"
    /\ lastEvent.done.failed = 1
    /\ lastEvent.done.got_message = "backend error"
    /\ \A i \in DOMAIN tasks : tasks[i].tab # lastEvent.done.tab

\* C3: no tab has two workers in flight, and while a tab has one in flight
\* every button that submits for that tab is disabled.
C3_OneInFlightPerTab ==
    \A tab \in TaskTabs :
        /\ Cardinality(InFlight(tab)) <= 1
        /\ InFlight(tab) # {} => \A b \in ButtonsOf(tab) : disabled[b]

C3_Witness ==
    /\ UserActs
    /\ \E i \in InFlight("IdeaWorkshopTab") : tasks[i].kind = "send_message"
    /\ disabled["send_button"] /\ disabled["save_button"]
    /\ conversation # <<>>
    /\ ~disabled["generate_button"]

\* C4: a tab with no worker in flight has its buttons enabled: whichever slot
\* ran for the tab's worker, success or failure, the tab is idle again.
C4_IdleAfterCompletion ==
    /\ \A tab \in TaskTabs :
        InFlight(tab) = {} => \A b \in ButtonsOf(tab) : ~disabled[b]
    /\ lastEvent.done.tab # ""
        => \A b \in ButtonsOf(lastEvent.done.tab) : ~disabled[b]

C4_Witness ==
    /\ lastEvent.op = "_handle_error"
    /\ lastEvent.done.tab = "StyleBuilderTab"
    /\ lastEvent.done.failed = 1
    /\ ~disabled["generate_button"]

\* a worker waiting to run was submitted with its handler's preconditions met
SubmittedWithPreconditions(w) ==
    /\ w.kind \in {"send_message", "generate_style", "run_fact_check",
                   "run_style_check", "run_consistency_check"} => w.text # <<>>
    /\ w.kind = "save_report" => conversation # <<>>
    /\ w.kind = "run_fact_check" => w.files_at_submit["fact_library"].exists
    /\ w.kind = "run_style_check" => w.files_at_submit["style_profile"].exists
    /\ w.kind = "run_consistency_check" => w.files_at_submit["idea_report"].exists

\* a button handler returned before submitting: nothing is in flight for its
\* tab and the tab's buttons are enabled
RefusedAndIdle ==
    lastEvent.op \in ClickOps
    => /\ lastEvent.done = NoWorker
       /\ InFlight(TabOfOp(lastEvent.op)) = {}
       /\ \A b \in ButtonsOf(TabOfOp(lastEvent.op)) : ~disabled[b]

\* C5, as claimed: every button handler whose input is empty or whose required
\* artifact is missing shows a dialog, submits no worker and leaves its tab idle.
C5_Original ==
    /\ \A i \in DOMAIN tasks : ~tasks[i].ran => SubmittedWithPreconditions(tasks[i])
    /\ RefusedAndIdle
    /\ lastEvent.op \in ClickOps => lastEvent.dialog # ""

\* C5, amended: every button handler whose input is empty or whose required
\* artifact is missing submits no worker and leaves its tab idle, and shows a
\* dialog, except send_message, which returns without a dialog.
C5_RefusalKeepsIdle ==
    /\ \A i \in DOMAIN tasks : ~tasks[i].ran => SubmittedWithPreconditions(tasks[i])
    /\ RefusedAndIdle
    /\ (lastEvent.op \in ClickOps /\ lastEvent.op # "send_message") => lastEvent.dialog # ""
    /\ lastEvent.op = "send_message" => lastEvent.dialog = "" /\ lastEvent.input = <<>>

C5_Witness ==
    /\ lastEvent.op = "run_style_check"
    /\ lastEvent.input # <<>>
    /\ ~files["style_profile"].exists
    /\ lastEvent.dialog = "Missing Style Profile"
    /\ ~disabled["style_button"]
    /\ tasks # <<>>

\* C6, as claimed: after a failure slot has run, the three artifacts are as
\* they were when the tab submitted the worker.
C6_Original ==
    lastEvent.done.failed >= 1 => files = lastEvent.done.files_at_submit

\* C6, amended: the failing worker and its failure slot write nothing: a step
\* in which a worker's task raises, and a step in which a failure slot runs,
\* leave the three artifacts as they were before the step.
C6_FailureWritesNothing ==
    [][ /\ (lastEvent'.op = "_handle_error" \/ lastEvent'.done.failed >= 1)
            => files' = files
        /\ \A i \in DOMAIN tasks \cap DOMAIN tasks' :
            (~tasks[i].ran /\ tasks'[i].ran /\ tasks'[i].outcome.kind = "raise")
                => files' = files ]_vars

C6_Witness ==
    /\ lastEvent.op = "_handle_error"
    /\ lastEvent.done.kind = "generate_style"
    /\ lastEvent.done.failed = 1
    /\ files["style_profile"] = File(<<"old">>)
    /\ files # lastEvent.done.files_at_submit

\* C7: after the success slot of save report (of generate style) has run with
\* result text T, the idea report (the style profile) exists and is T without
\* its leading and trailing whitespace, whatever the file held before.
C7_SavedTrimmedResult ==
    /\ lastEvent.op = "_save_report_result"
        => /\ files["idea_report"].exists
           /\ IsTrimOf(files["idea_report"].content, lastEvent.done.got_result.text)
           /\ lastEvent.done.got_result = lastEvent.done.outcome.value
    /\ lastEvent.op = "_handle_style_result"
        => /\ files["style_profile"].exists
           /\ IsTrimOf(files["style_profile"].content, lastEvent.done.got_result.text)
           /\ lastEvent.done.got_result = lastEvent.done.outcome.value

C7_Witness ==
    /\ lastEvent.op = "_save_report_result"
    /\ lastEvent.done.files_at_submit["idea_report"] = File(<<"old">>)
    /\ lastEvent.done.got_result.text = <<"\n", "REPORT", " ", "BODY", " ">>
    /\ files["idea_report"] = File(<<"REPORT", " ", "BODY">>)

\* C13, as claimed: with a placeholder in the credential file, whichever
\* script built the window, the style builder's success slot receives a mock
\* result and the style profile is the mock text, trimmed.
C13_Original ==
    (IsPlaceholderText(api_key_file.content) /\ lastEvent.op = "_handle_style_result")
    => /\ lastEvent.done.got_result.is_mock
       /\ files["style_profile"].exists
       /\ IsTrimOf(files["style_profile"].content, lastEvent.done.got_result.text)
       /\ lastEvent.done.got_result \in {LLMClient_mock_result, main_mock_result}

\* no fact check waiting to run was submitted without a fact library
NoFactCheckWithoutLibrary ==
    \A i \in DOMAIN tasks :
        (tasks[i].kind = "run_fact_check" /\ ~tasks[i].ran)
        => tasks[i].files_at_submit["fact_library"].exists

\* C15, as claimed: a fact check invoked while the fact library file does not
\* exist shows the Missing Fact Library warning and submits no worker.
C15_Original ==
    /\ NoFactCheckWithoutLibrary
    /\ (lastEvent.op = "run_fact_check" /\ ~files["fact_library"].exists)
        => /\ lastEvent.dialog = "Missing Fact Library"
           /\ InFlight("FactCheckerTab") = {}

\* C15, amended: a fact check invoked while the fact library file does not
\* exist submits no worker, with a credential or without; it shows the
\* Missing Fact Library warning when the pasted text is not blank and the
\* Missing Text dialog when it is.
C15_MissingLibraryRefused ==
    /\ NoFactCheckWithoutLibrary
    /\ (lastEvent.op = "run_fact_check" /\ ~files["fact_library"].exists)
        => /\ lastEvent.done = NoWorker
           /\ InFlight("FactCheckerTab") = {}
           /\ ~disabled["check_button"]
           /\ lastEvent.dialog =
                (IF lastEvent.input = <<>> THEN "Missing Text" ELSE "Missing Fact Library")

C15_Witness ==
    /\ lastEvent.op = "run_fact_check"
    /\ ~files["fact_library"].exists
    /\ lastEvent.input # <<>>
    /\ lastEvent.dialog = "Missing Fact Library"
    /\ ~is_available
    /\ tasks = <<>>

\* the backend invocations of a worker that has run: one plain invocation at
\* most, preceded for a fact check by one search-augmented invocation at most
CallsWithinBudget(w) ==
    w.ran =>
        LET calls == w.outcome.calls
        IN  /\ Len(PlainCalls(calls)) <= 1
            /\ Len(calls) <= (IF w.kind = "run_fact_check" THEN 2 ELSE 1)
            /\ \A k \in 1..Len(calls) : calls[k].mode = "search" => k = 1
            /\ w.kind # "run_fact_check" => \A k \in 1..Len(calls) : calls[k].mode = "plain"

\* C16: nothing is retried but the one fallback from search to plain: a task
\* calling generate invokes the backend at most once, the fact check's
\* generate_with_search at most twice, search first and then plain at most
\* once; a worker's task is run once, and a failure slot submits no worker.
C16_NoRetries ==
    [][ /\ \A i \in DOMAIN tasks' : CallsWithinBudget(tasks'[i])
        /\ CallsWithinBudget(lastEvent'.done)
        /\ \A i \in DOMAIN tasks \cap DOMAIN tasks' :
            tasks[i].ran => tasks'[i].ran /\ tasks'[i].outcome = tasks[i].outcome
        /\ lastEvent'.op = "_handle_error"
            => submitted' = submitted /\ DOMAIN tasks' \subseteq DOMAIN tasks ]_vars

C16_Witness ==
    /\ lastEvent.op = "_handle_error"
    /\ lastEvent.done.kind = "run_fact_check"
    /\ Len(lastEvent.done.outcome.calls) = 2
    /\ lastEvent.done.outcome.calls[1].mode = "search"
    /\ lastEvent.done.outcome.calls[2].mode = "plain"
    /\ lastEvent.done.failed = 1
    /\ InFlight("FactCheckerTab") = {}

\* C18: the conversation only grows at its end: every step keeps the earlier
\* conversation as a prefix of the later one, entries neither removed nor
\* reordered nor rewritten, and every speaker is "User" or "Coach".
C18_ConversationAppendOnly ==
    [][ /\ Len(conversation) <= Len(conversation')
        /\ SubSeq(conversation', 1, Len(conversation)) = conversation
        /\ \A k \in 1..Len(conversation') : conversation'[k][1] \in {"User", "Coach"} ]_vars

C18_Witness ==
    /\ lastEvent.op = "_handle_error"
    /\ lastEvent.done.kind = "send_message"
    /\ Len(conversation) = 3
    /\ conversation[1][1] = "User"
    /\ conversation[2][1] = "Coach"
    /\ conversation[3] = <<"User", <<"a">>>>

\* t ends with u
EndsWith(t, u) ==
    Len(u) <= Len(t) /\ SubSeq(t, Len(t) - Len(u) + 1, Len(t)) = u

\* what C19 says of worker w of the idea workshop
TranscriptAsSubmitted(w) ==
    /\ (w.kind = "send_message" /\ ~w.ran)
        => /\ w.conv_at_submit # <<>>
           /\ w.conv_at_submit[Len(w.conv_at_submit)] = <<"User", w.text>>
    /\ (w.ran /\ w.outcome.calls # <<>>)
        => /\ Len(w.outcome.calls) = 1
           /\ EndsWith(w.outcome.calls[1].prompt, History(w.conv_at_submit))

\* C19: while a worker of the idea workshop is in flight the conversation is
\* as it was when the worker was submitted, for a send ending with the user
\* message just appended, and the transcript the worker sends the backend is
\* that conversation; a Coach entry is appended only by the success slot of a
\* send, to the conversation the worker was submitted with.
C19_TranscriptAsSubmitted ==
    [][ /\ \A i \in DOMAIN tasks' :
            tasks'[i].tab = "IdeaWorkshopTab"
            => /\ TranscriptAsSubmitted(tasks'[i])
               /\ i \in InFlight("IdeaWorkshopTab")' => conversation' = tasks'[i].conv_at_submit
        /\ lastEvent'.done.tab = "IdeaWorkshopTab" => TranscriptAsSubmitted(lastEvent'.done)
        /\ ( /\ conversation' # conversation
             /\ conversation'[Len(conversation')][1] = "Coach" )
            => /\ lastEvent'.op = "_handle_response"
               /\ lastEvent'.done.kind = "send_message"
               /\ lastEvent'.done.ran
               /\ lastEvent'.done.finished = 1
               /\ Len(conversation') = Len(lastEvent'.done.conv_at_submit) + 1
               /\ SubSeq(conversation', 1, Len(conversation') - 1)
                    = lastEvent'.done.conv_at_submit ]_vars

C19_Witness ==
    /\ \E i \in InFlight("IdeaWorkshopTab") :
        /\ tasks[i].kind = "send_message"
        /\ tasks[i].ran
        /\ tasks[i].outcome.calls # <<>>
        /\ tasks[i].conv_at_submit = conversation
    /\ Len(conversation) = 3
    /\ conversation[2][1] = "Coach"
    /\ eventQueue # <<>>

\* the artifact a check's task reads
RequiredArtifact(kind) ==
    CASE kind = "run_fact_check" -> "fact_library"
      [] kind = "run_style_check" -> "style_profile"
      [] kind = "run_consistency_check" -> "idea_report"

CheckKinds == {"run_fact_check", "run_style_check", "run_consistency_check"}

\* check worker w, submitted with its artifact present, still has it in fs
\* while it waits to run, and did not fail to read it once it has run
CheckFindsArtifact(w, fs) ==
    w.kind \in CheckKinds
    => /\ w.files_at_submit[RequiredArtifact(w.kind)].exists
       /\ ~w.ran => fs[RequiredArtifact(w.kind)].exists
       /\ w.ran => w.outcome.msg # "FileNotFoundError"

\* C20: no step removes an artifact file that exists, so a check worker
\* submitted after its existence test passed finds the file when it reads it.
C20_NoArtifactDeleted ==
    [][ /\ \A a \in Artifacts : files[a].exists => files'[a].exists
        /\ \A i \in DOMAIN tasks' : CheckFindsArtifact(tasks'[i], files')
        /\ CheckFindsArtifact(lastEvent'.done, files') ]_vars

C20_Witness ==
    /\ lastEvent.op = "_handle_results"
    /\ lastEvent.done.kind = "run_fact_check"
    /\ lastEvent.done.finished = 1
    /\ lastEvent.done.outcome.calls # <<>>
    /\ lastEvent.done.files_at_submit["fact_library"] = File(<<"a">>)
    /\ files["fact_library"].exists

\* the line a check's prompt puts before the pasted text
TextLabel(kind) ==
    IF kind = "run_fact_check" THEN "Text to verify:" ELSE "Text to review:"

\* t holds u as a run of consecutive characters
Contains(t, u) ==
    \E k \in 0..(Len(t) - Len(u)) : SubSeq(t, k + 1, k + Len(u)) = u

\* C21: the prompt a check worker sends when it runs holds the pasted text the
\* worker was submitted with, and before it the required artifact as the file
\* is when the worker runs, whatever the file held when the check was
\* submitted.
C21_ArtifactReadAtRun ==
    [][ \A i \in DOMAIN tasks \cap DOMAIN tasks' :
            ( /\ tasks[i].kind \in CheckKinds
              /\ ~tasks[i].ran
              /\ tasks'[i].ran
              /\ tasks'[i].outcome.calls # <<>> )
            => /\ tasks[i].text # <<>>
               /\ \A k \in 1..Len(tasks'[i].outcome.calls) :
                    EndsWith(tasks'[i].outcome.calls[k].prompt,
                             <<"\n">> \o files[RequiredArtifact(tasks[i].kind)].content
                                \o <<"\n", "\n", TextLabel(tasks[i].kind), "\n">>
                                \o tasks[i].text) ]_vars

C21_Witness ==
    \E i \in DOMAIN tasks :
        /\ tasks[i].kind = "run_style_check"
        /\ tasks[i].ran
        /\ tasks[i].files_at_submit["style_profile"] = File(<<"old">>)
        /\ files["style_profile"] = File(<<"REPORT", " ", "BODY">>)
        /\ tasks[i].outcome.calls # <<>>
        /\ Contains(tasks[i].outcome.calls[1].prompt,
                    <<"Style profile:", "\n", "REPORT", " ", "BODY", "\n", "\n",
                      "Text to review:", "\n", "a">>)
        /\ ~Contains(tasks[i].outcome.calls[1].prompt, <<"old">>)

----------------------------------------------------------------------------
(* Claims about the fact library tab, under LibrarySpec *)

\* C14, as claimed: a load that follows the save of an editor text C the tab
\* accepts (not blank) shows exactly C in the editor.
C14_Original ==
    (call.op = "load_library" /\ call.editor.some /\ ~IsBlank(call.editor.val))
    => ret.editor = call.editor.val

\* C14, amended: a load that follows the save of an editor text C the tab
\* accepts shows C without its leading and trailing whitespace, whatever the
\* file held before the save.
C14_RoundTripTrimmed ==
    (call.op = "load_library" /\ call.editor.some /\ ~IsBlank(call.editor.val))
    => /\ IsTrimOf(ret.editor, call.editor.val)
       /\ files["fact_library"] = File(ret.editor)

C14_Witness ==
    /\ call.op = "load_library"
    /\ call.editor = Some(<<" ", "a", "\n">>)
    /\ ret.editor = <<"a">>

====
